---- MODULE Spec2Model ----
(***************************************************************************)
(* Model of RestaurantRecommender (src/restaurant_recommender.py):         *)
(* load_data builds the vendor catalog and the preference index row by     *)
(* row, generate_recommendations scores every catalog vendor for each      *)
(* test location row and appends the selected recommendations.             *)
(*                                                                         *)
(* Units.  Latitudes and longitudes are integers in hundredths of a        *)
(* degree, at most 14 of them away from (0, 0) in either direction.        *)
(* Distances are integers in millimetres.  Ratings, delivery charges,      *)
(* discounts and serving distances (km) are integers.                      *)
(* A score, and min_score, is a Python float: the record                   *)
(* [milli |-> n, excess |-> d] is the double n/1000 + d/(125 * 2^60), n    *)
(* being its value in thousandths of a point and d what the double has     *)
(* above that decimal; 41.0 * 0.1 = 4.1000000000000005 is                  *)
(* [milli |-> 4100, excess |-> 76800], the double nearest to 4.1 is        *)
(* [milli |-> 4100, excess |-> -51200].                                    *)
(* An optional CSV field is <<>> when blank and <<n>> when it holds n.     *)
(* A row names in its field unparsable the columns whose text int() or     *)
(* float() rejects: a blank required column, or text that is no number.    *)
(***************************************************************************)
EXTENDS Integers, Sequences, FiniteSets

VARIABLES
    pc,                    \* position of run(): load_vendors, load_orders, locations, emit,
                           \* done, or aborted when an exception has left run()
    vendors,               \* self.vendors, in dict iteration order
    first_inserted,        \* vendor ids in the order the rows first named them
    customer_orders,       \* self.customer_orders
    customer_preferences,  \* self.customer_preferences
    orders_read,           \* order rows consumed so far, in order
    locations_read,        \* location rows consumed so far
    cur,                   \* the location row of the current loop iteration
    vendor_scores,         \* vendor_scores of the current iteration, sorted
    min_score,             \* min_score of the current iteration
    next_idx,              \* index of the next candidate of the emission loop
    row_start,             \* len(recommendations) when the current row began
    recommendations        \* the output list

vars == <<pc, vendors, first_inserted, customer_orders, customer_preferences,
          orders_read, locations_read, cur, vendor_scores, min_score, next_idx,
          row_start, recommendations>>

(***************************************************************************)
(* Bounds of the model.                                                    *)
(***************************************************************************)
MaxVendors == 3
MaxOrderRows == 2
MaxLocationRows == 2
MaxCapVendors == 12
MaxLoadedLocationRows == 2

(***************************************************************************)
(* Program constants.                                                      *)
(***************************************************************************)
SquareMetresPerSquareUnit == 1236431
KmUnit == 1000000
ScoreUnit == 1000
DefaultRating == 0
DefaultDeliveryCharge == 0
DefaultServingDistance == 10
DefaultIsOpen == 1
DefaultDiscount == 0
PreviousOrderBonus == 50
CategoryWeight == 2
RatingWeight == 3
DeliveryChargeWeight == 2
MinScoreFloor == 10
GroupCap == 10

Blank == <<>>
NoRow == <<>>
EmptyDict == <<>>

RECURSIVE ISqrt(_)
\* the integer part of the square root
ISqrt(n) ==
    IF n < 2 THEN n
    ELSE LET s == 2 * ISqrt(n \div 4)
         IN IF (s + 1) * (s + 1) <= n THEN s + 1 ELSE s

(***************************************************************************)
(* haversine_distance, within a millimetre.  With the angles of the model    *)
(* (under 0.3 degrees) the series of sin, cos and asin give                *)
(*   (c * 6371 km)^2 = K^2 * (dlat^2 + dlon^2)                             *)
(*                     - (K^2 * k^2 / 6) * dlon^2                          *)
(*                         * (3 * (lat1^2 + lat2^2) - dlat^2)              *)
(* up to a relative 10^-10, K = 6371 km * pi / 18000 = 1111.949266 m being *)
(* the length of a hundredth of a degree and k = pi / 18000 its angle in   *)
(* radians: K^2 = 1236431.171 m^2 and K^2 * k^2 / 6 = 0.0062773 m^2.  The  *)
(* square is held as whole square metres plus thousandths, its root is     *)
(* the whole metres m plus rest / (2 * m) - rest^2 / (8 * m^3).  No        *)
(* distance of the model is within 0.9 m of a whole number of kilometres,  *)
(* so the comparisons of lines 78 and 85 to 94 come out as in the code.    *)
(***************************************************************************)
haversine_distance(lat1, lon1, lat2, lon2) ==
    LET dlat   == lat2 - lat1
        dlon   == lon2 - lon1
        flat   == dlat * dlat + dlon * dlon
        curved == dlon * dlon * (3 * (lat1 * lat1 + lat2 * lat2) - dlat * dlat)
        whole  == flat * SquareMetresPerSquareUnit
        milli  == flat * 171
                    - (curved * 6 + (curved * 277) \div 1000 + (curved * 3) \div 10000)
        metres == ISqrt(whole + milli \div 1000)
        rest   == (whole - metres * metres) * 1000 + milli
        first  == (rest * 10) \div (2 * metres)
        second == (first * first) \div (20000 * metres)
    IN IF metres = 0 THEN 0
       ELSE metres * 1000 + (first - second + 5) \div 10

(***************************************************************************)
(* Python float arithmetic (IEEE 754 binary64, round to nearest, ties to   *)
(* even) on the doubles [milli |-> n, excess |-> d] = n/1000               *)
(* + d/(125 * 2^60), for 0.004 <= |n/1000| < 2048 or n = 0.                *)
(***************************************************************************)
\* 2^k, and 2^k modulo 250 by repeated squaring
Pow2(k) == 2^k

RECURSIVE Pow2Mod250(_)
Pow2Mod250(k) ==
    IF k = 0 THEN 1
    ELSE LET half == Pow2Mod250(k \div 2)
         IN IF k % 2 = 0 THEN (half * half) % 250 ELSE (2 * half * half) % 250

\* the double of a number of thousandths that is a multiple of 125, which
\* a double holds exactly: an integer, a half
Float(n) == [milli |-> n, excess |-> 0]

Sign(x) == IF x > 0 THEN 1 ELSE IF x < 0 THEN 0 - 1 ELSE 0

\* the binary exponent e of n/1000: 2^e <= n/1000 < 2^(e+1)
Exponent(n) ==
    CHOOSE e \in -8 .. 10 :
        1000 * Pow2(e + 8) <= 256 * n /\ 256 * n < 1000 * Pow2(e + 9)

\* the unit in the last place of the doubles of exponent e, in units of
\* the excess
Ulp(e) == 125 * Pow2(e + 8)

\* The excess of the double nearest to n/1000 + (t + o)/(1250 * 2^60), for
\* n > 0 and o of sign s and smaller than any t.  The doubles of exponent e
\* are the multiples of 10 * Ulp(e) in units of 1/(1250 * 2^60), in which
\* n/1000 is n * 5 * 2^58: its place between two doubles is known from
\* n * 2^(49 - e) modulo 250.
RoundPositive(n, t, s) ==
    LET e0    == Exponent(n)
        under == /\ 256 * n = 1000 * Pow2(e0 + 8)
                 /\ (t < 0 \/ (t = 0 /\ s < 0))
        e     == IF under THEN e0 - 1 ELSE e0
        ulp   == 10 * Ulp(e)
        place == (((n * Pow2Mod250(49 - e)) % 250) * 10 * Pow2(e + 8) + t) % (2 * ulp)
        low   == place % ulp
        up    == IF 2 * low # ulp THEN 2 * low > ulp
                 ELSE IF s # 0 THEN s > 0
                 ELSE place >= ulp
    IN IF low = 0 THEN t \div 10
       ELSE IF up THEN (t + ulp - low) \div 10
       ELSE (t - low) \div 10

\* the double nearest to n/1000 + (t + o)/(1250 * 2^60)
Round(n, t, s) ==
    IF n = 0 THEN [milli |-> 0, excess |-> t \div 10]
    ELSE IF n < 0 THEN [milli |-> n, excess |-> 0 - RoundPositive(0 - n, 0 - t, 0 - s)]
    ELSE [milli |-> n, excess |-> RoundPositive(n, t, s)]

\* a + b
FloatAdd(a, b) == Round(a.milli + b.milli, 10 * (a.excess + b.excess), 0)

\* a * 0.1, for a whose thousandths are a multiple of 10.  The double 0.1
\* is (2^55 + 2)/(10 * 2^55), so the exact product is a/10 * (1 + 2^-54):
\* in units of 1/(1250 * 2^60) that is a.milli/10 thousandths plus
\* a.excess + 8 * a.milli plus a.excess * 2^-54
TimesTenth(a) ==
    Round(a.milli \div 10, a.excess + 8 * a.milli, Sign(a.excess))

\* a < b, a <= b
FloatLess(a, b) == a.milli < b.milli \/ (a.milli = b.milli /\ a.excess < b.excess)
FloatLeq(a, b) == ~FloatLess(b, a)

\* max(a, b), which returns a unless b is larger
FloatMax(a, b) == IF FloatLess(a, b) THEN b ELSE a

(***************************************************************************)
(* float(row.get(k, d) or d) and int(row.get(k, d) or d): the default      *)
(* replaces a blank string only; the string "0" is kept and parses to 0.   *)
(***************************************************************************)
\* mutant: the default replaces the parsed number when it is 0
FieldOrNumber(field, default) ==
    IF field = Blank \/ field[1] = 0 THEN default ELSE field[1]

FieldOr(field, default) == IF field = Blank THEN default ELSE field[1]

ParseVendor(row) ==
    [ id               |-> row.id,
      lat              |-> row.latitude,
      lon              |-> row.longitude,
      category         |-> row.vendor_category_en,
      rating           |-> FieldOr(row.vendor_rating, DefaultRating),
      delivery_charge  |-> FieldOr(row.delivery_charge, DefaultDeliveryCharge),
      serving_distance |-> FieldOr(row.serving_distance, DefaultServingDistance),
      is_open          |-> FieldOr(row.is_open, DefaultIsOpen),
      discount         |-> FieldOr(row.discount_percentage, DefaultDiscount) ]

(***************************************************************************)
(* The catalog dict as the sequence of its entries in iteration order.     *)
(***************************************************************************)
VendorIdsOf(vs) == { vs[i].id : i \in DOMAIN vs }
IndexOf(vs, vid) == CHOOSE i \in DOMAIN vs : vs[i].id = vid
VendorOf(vs, vid) == vs[IndexOf(vs, vid)]

\* self.vendors[vendor_id] = {...}: a known key keeps its position
VendorsAssign(vs, v) ==
    IF v.id \in VendorIdsOf(vs)
    THEN [vs EXCEPT ![IndexOf(vs, v.id)] = v]
    ELSE Append(vs, v)

\* self.customer_orders[customer_id].add(vendor_id)
OrdersAdd(co, cid, vid) ==
    [c \in DOMAIN co \cup {cid} |->
        IF c = cid
        THEN (IF c \in DOMAIN co THEN co[c] ELSE {}) \cup {vid}
        ELSE co[c]]

\* self.customer_orders.get(customer_id, set())
OrdersGet(co, cid) == IF cid \in DOMAIN co THEN co[cid] ELSE {}

\* Counter.get(category, 0)
CounterGet(counter, category) ==
    IF category \in DOMAIN counter THEN counter[category] ELSE 0

\* mutant: the count is set to 1 instead of incremented
PreferencesSet(cp, cid, category) ==
    LET old == IF cid \in DOMAIN cp THEN cp[cid] ELSE EmptyDict
        new == [k \in DOMAIN old \cup {category} |->
                   IF k = category THEN 1 ELSE old[k]]
    IN [c \in DOMAIN cp \cup {cid} |-> IF c = cid THEN new ELSE cp[c]]

\* self.customer_preferences[customer_id][category] += 1
PreferencesIncrement(cp, cid, category) ==
    LET old == IF cid \in DOMAIN cp THEN cp[cid] ELSE EmptyDict
        new == [k \in DOMAIN old \cup {category} |->
                   IF k = category THEN CounterGet(old, category) + 1 ELSE old[k]]
    IN [c \in DOMAIN cp \cup {cid} |-> IF c = cid THEN new ELSE cp[c]]

\* the category branch of the order loop
TrackCategory(vs, cp, cid, vid) ==
    IF vid \in VendorIdsOf(vs)
    THEN PreferencesIncrement(cp, cid, VendorOf(vs, vid).category)
    ELSE cp

(***************************************************************************)
(* calculate_vendor_score, step by step as the code accumulates it; vs,    *)
(* co and cp are self.vendors, self.customer_orders and                    *)
(* self.customer_preferences.  Up to the open status every step is exact:  *)
(* the operands are integers and halves.                                   *)
(***************************************************************************)
\* mutant: the default radius is compared instead of the vendor's own
OutsideDefaultDistance(distance, vendor) ==
    distance > DefaultServingDistance * KmUnit

OutsideServingDistance(distance, vendor) ==
    distance > vendor.serving_distance * KmUnit

DistanceScore(distance) ==
    IF distance <= 1 * KmUnit THEN 20
    ELSE IF distance <= 3 * KmUnit THEN 15
    ELSE IF distance <= 5 * KmUnit THEN 10
    ELSE IF distance <= 8 * KmUnit THEN 5
    ELSE 1

\* vendor['rating'] * 3
RatingScore(vendor) == Float(vendor.rating * RatingWeight * ScoreUnit)

\* vendor['delivery_charge'] * 2, subtracted
DeliveryChargePenalty(vendor) ==
    Float(0 - vendor.delivery_charge * DeliveryChargeWeight * ScoreUnit)

\* vendor['discount'] * 0.5
DiscountBonus(vendor) == Float((vendor.discount * ScoreUnit) \div 2)

\* mutant: the test of the open flag is inverted
OpenStatusInverted(vendor, score) ==
    IF vendor.is_open # 0 THEN TimesTenth(score) ELSE score

\* score *= 0.1 when not vendor['is_open']
OpenStatus(vendor, score) ==
    IF vendor.is_open = 0 THEN TimesTenth(score) ELSE score

\* mutant: the bonus of the simple variant, 15
HistoricalBonusSmall(co, cid, vid, score) ==
    IF vid \in OrdersGet(co, cid)
    THEN FloatAdd(score, Float(15 * ScoreUnit))
    ELSE score

HistoricalBonus(co, cid, vid, score) ==
    IF vid \in OrdersGet(co, cid)
    THEN FloatAdd(score, Float(PreviousOrderBonus * ScoreUnit))
    ELSE score

CategoryBonus(cp, cid, vendor, score) ==
    IF cid \in DOMAIN cp
    THEN FloatAdd(score,
                  Float(CounterGet(cp[cid], vendor.category) * CategoryWeight * ScoreUnit))
    ELSE score

\* max(0, score)
ClampScore(score) == FloatMax(Float(0), score)

calculate_vendor_score(vs, co, cp, cid, clat, clon, vid) ==
    IF vid \notin VendorIdsOf(vs) THEN Float(0)
    ELSE
      LET vendor   == VendorOf(vs, vid)
          distance == haversine_distance(clat, clon, vendor.lat, vendor.lon)
      IN IF OutsideServingDistance(distance, vendor) THEN Float(0)
         ELSE
           LET s1 == Float(DistanceScore(distance) * ScoreUnit)
               s2 == FloatAdd(s1, RatingScore(vendor))
               s3 == FloatAdd(s2, DeliveryChargePenalty(vendor))
               s4 == FloatAdd(s3, DiscountBonus(vendor))
               s5 == OpenStatus(vendor, s4)
               s6 == HistoricalBonus(co, cid, vid, s5)
               s7 == CategoryBonus(cp, cid, vendor, s6)
           IN ClampScore(s7)

(***************************************************************************)
(* The body of the location loop up to min_score.                          *)
(***************************************************************************)
\* the loop over self.vendors that fills vendor_scores with the positive scores
ScoreAll(vs, co, cp, cid, clat, clon) ==
    SelectSeq([i \in 1 .. Len(vs) |->
                 [ vendor_id |-> vs[i].id,
                   score     |-> calculate_vendor_score(vs, co, cp, cid, clat, clon,
                                                        vs[i].id) ]],
              LAMBDA entry : FloatLess(Float(0), entry.score))

\* mutant: e is placed before the elements of equal score
InsertBeforeEqual(sorted, e) ==
    LET k == Cardinality({ i \in DOMAIN sorted : FloatLess(e.score, sorted[i].score) })
    IN SubSeq(sorted, 1, k) \o <<e>> \o SubSeq(sorted, k + 1, Len(sorted))

\* where a stable descending sort places e among the already sorted
\* elements that preceded it: after every element whose score is >= its own
InsertDescending(sorted, e) ==
    LET k == Cardinality({ i \in DOMAIN sorted : FloatLeq(e.score, sorted[i].score) })
    IN SubSeq(sorted, 1, k) \o <<e>> \o SubSeq(sorted, k + 1, Len(sorted))

\* mutant: the sort without reverse=True
RECURSIVE SortAscending(_)
SortAscending(s) ==
    IF s = <<>> THEN <<>>
    ELSE LET sorted == SortAscending(SubSeq(s, 1, Len(s) - 1))
             e      == s[Len(s)]
             k      == Cardinality({ i \in DOMAIN sorted :
                                       FloatLeq(sorted[i].score, e.score) })
         IN SubSeq(sorted, 1, k) \o <<e>> \o SubSeq(sorted, k + 1, Len(sorted))

\* vendor_scores.sort(key=lambda x: x[1], reverse=True)
RECURSIVE SortDescending(_)
SortDescending(s) ==
    IF s = <<>> THEN <<>>
    ELSE InsertDescending(SortDescending(SubSeq(s, 1, Len(s) - 1)), s[Len(s)])

\* mutant: the floor alone, without the tenth of the top score
MinScoreFloorOnly(sorted) == Float(MinScoreFloor * ScoreUnit)

\* max(10, vendor_scores[0][1] * 0.1) if vendor_scores else 10
MinScore(sorted) ==
    IF sorted # <<>>
    THEN FloatMax(Float(MinScoreFloor * ScoreUnit), TimesTenth(sorted[1].score))
    ELSE Float(MinScoreFloor * ScoreUnit)

\* len([r for r in recommendations if same customer_id and location_number])
GroupCount(recs, cid, loc) ==
    Cardinality({ i \in DOMAIN recs :
                    recs[i].customer_id = cid /\ recs[i].location_number = loc })

\* mutant: the cap is tested with <= instead of <
SelectedOffByOne(recs, cid, loc, score, minscore) ==
    FloatLeq(minscore, score) /\ GroupCount(recs, cid, loc) <= GroupCap

\* mutant: the threshold is tested with > instead of >=
SelectedStrict(recs, cid, loc, score, minscore) ==
    FloatLess(minscore, score) /\ GroupCount(recs, cid, loc) < GroupCap

\* the condition of the emission loop
Selected(recs, cid, loc, score, minscore) ==
    FloatLeq(minscore, score) /\ GroupCount(recs, cid, loc) < GroupCap

(***************************************************************************)
(* Input rows.                                                             *)
(***************************************************************************)
Customers == {"c1", "c2"}
VendorIds == 1 .. 3

VendorRow(id, lat, lon, cat, rating, charge, serving, open, discount) ==
    [ id |-> id, latitude |-> lat, longitude |-> lon, vendor_category_en |-> cat,
      vendor_rating |-> rating, delivery_charge |-> charge,
      serving_distance |-> serving, is_open |-> open,
      discount_percentage |-> discount, unparsable |-> {} ]

\* an open five-star vendor; a closed one with a 3 km radius, which scores
\* 36 * 0.1 = 3.6 from (0, 0); a closed one 5.56 km to the north-east of
\* (0, 0), which scores 56 * 0.1 = 5.6000000000000005 from there, above the
\* 3.6 + 2 = 5.6 of the former with one order in its category
VendorRows ==
    { VendorRow(id, 0, 0, "A", <<5>>, Blank, Blank, Blank, Blank) : id \in VendorIds }
    \cup { VendorRow(id, 0, 0, "B", <<5>>, Blank, <<3>>, <<0>>, <<2>>) : id \in VendorIds }
    \cup { VendorRow(id, 3, 4, "A", <<5>>, Blank, Blank, <<0>>, <<72>>) : id \in VendorIds }

OrderRow(cid, vid) == [ customer_id |-> cid, vendor_id |-> vid, unparsable |-> {} ]

OrderRows == { OrderRow("c1", vid) : vid \in VendorIds } \cup { OrderRow("c2", 1) }

LocationRow(cid, loc, lat, lon) ==
    [ customer_id |-> cid, location_number |-> loc, latitude |-> lat,
      longitude |-> lon, unparsable |-> {} ]

LocationRows == { LocationRow("c1", 1, 0, 0), LocationRow("c2", 1, 3, 4) }

\* int(row[k]) or float(row[k]) of the row raises ValueError: the loops have
\* no try/except, so the exception leaves load_data or
\* generate_recommendations
RowRaises(row) == row.unparsable # {}

\* vendor rows with a blank id, latitude or longitude, or with text that
\* is no number in a column that float() or int() parses
MalformedVendorRows ==
    { [VendorRow(2, 0, 0, "A", <<5>>, Blank, Blank, Blank, Blank)
         EXCEPT !.unparsable = {column}] :
        column \in {"id", "latitude", "longitude", "vendor_rating", "delivery_charge",
                    "serving_distance", "is_open", "discount_percentage"} }

\* order rows whose vendor_id is blank or no integer
MalformedOrderRows ==
    { [OrderRow("c1", 2) EXCEPT !.unparsable = {"vendor_id"}] }

\* location rows with a blank or non-numeric location_number, latitude or
\* longitude
MalformedLocationRows ==
    { [LocationRow("c1", 1, 0, 0) EXCEPT !.unparsable = {column}] :
        column \in {"location_number", "latitude", "longitude"} }

\* the ids of the rows read, each at its first occurrence
NoteFirst(ids, id) ==
    IF \E i \in DOMAIN ids : ids[i] = id THEN ids ELSE Append(ids, id)

RECURSIVE FirstInserted(_)
FirstInserted(file) ==
    IF file = <<>> THEN <<>>
    ELSE NoteFirst(FirstInserted(SubSeq(file, 1, Len(file) - 1)), file[Len(file)].id)

(***************************************************************************)
(* run(): load_data, then generate_recommendations.                        *)
(***************************************************************************)
Init ==
    /\ pc = "load_vendors"
    /\ vendors = <<>>
    /\ first_inserted = <<>>
    /\ customer_orders = EmptyDict
    /\ customer_preferences = EmptyDict
    /\ orders_read = <<>>
    /\ locations_read = 0
    /\ cur = NoRow
    /\ vendor_scores = <<>>
    /\ min_score = Float(0)
    /\ next_idx = 0
    /\ row_start = 0
    /\ recommendations = <<>>

\* one iteration of the vendor loop
LoadVendorRow(row) ==
    /\ pc = "load_vendors"
    /\ IF RowRaises(row)
       THEN /\ pc' = "aborted"
            /\ UNCHANGED <<vendors, first_inserted>>
       ELSE /\ vendors' = VendorsAssign(vendors, ParseVendor(row))
            /\ first_inserted' = NoteFirst(first_inserted, row.id)
            /\ pc' = pc
    /\ UNCHANGED <<customer_orders, customer_preferences, orders_read,
                   locations_read, cur, vendor_scores, min_score, next_idx,
                   row_start, recommendations>>

\* the vendor file is exhausted
EndVendors ==
    /\ pc = "load_vendors"
    /\ pc' = "load_orders"
    /\ UNCHANGED <<vendors, first_inserted, customer_orders, customer_preferences,
                   orders_read, locations_read, cur, vendor_scores, min_score,
                   next_idx, row_start, recommendations>>

\* one iteration of the order loop; int(row['vendor_id']) raises before
\* the row has changed anything
LoadOrderRow(row) ==
    /\ pc = "load_orders"
    /\ IF RowRaises(row)
       THEN /\ pc' = "aborted"
            /\ UNCHANGED <<customer_orders, customer_preferences, orders_read>>
       ELSE /\ customer_orders' =
                 OrdersAdd(customer_orders, row.customer_id, row.vendor_id)
            /\ customer_preferences' =
                 TrackCategory(vendors, customer_preferences,
                               row.customer_id, row.vendor_id)
            /\ orders_read' = Append(orders_read, row)
            /\ pc' = pc
    /\ UNCHANGED <<vendors, first_inserted, locations_read, cur, vendor_scores,
                   min_score, next_idx, row_start, recommendations>>

\* the order file is exhausted; generate_recommendations starts
EndOrders ==
    /\ pc = "load_orders"
    /\ pc' = "locations"
    /\ UNCHANGED <<vendors, first_inserted, customer_orders, customer_preferences,
                   orders_read, locations_read, cur, vendor_scores, min_score,
                   next_idx, row_start, recommendations>>

\* one iteration of the location loop up to the emission loop
BeginRow(row) ==
    /\ pc = "locations"
    /\ IF RowRaises(row)
       THEN /\ pc' = "aborted"
            /\ UNCHANGED <<vendor_scores, min_score, cur, next_idx, row_start,
                           locations_read>>
       ELSE /\ LET sorted == SortDescending(
                              ScoreAll(vendors, customer_orders, customer_preferences,
                                       row.customer_id, row.latitude, row.longitude))
               IN /\ vendor_scores' = sorted
                  /\ min_score' = MinScore(sorted)
                  /\ pc' = IF sorted = <<>> THEN "locations" ELSE "emit"
            /\ cur' = row
            /\ next_idx' = 1
            /\ row_start' = Len(recommendations)
            /\ locations_read' = locations_read + 1
    /\ UNCHANGED <<vendors, first_inserted, customer_orders, customer_preferences,
                   orders_read, recommendations>>

\* one iteration of the emission loop
EmitCandidate ==
    /\ pc = "emit"
    /\ LET cand == vendor_scores[next_idx]
       IN recommendations' =
            IF Selected(recommendations, cur.customer_id, cur.location_number,
                        cand.score, min_score)
            THEN Append(recommendations,
                        [ customer_id     |-> cur.customer_id,
                          location_number |-> cur.location_number,
                          vendor_id       |-> cand.vendor_id,
                          score           |-> cand.score ])
            ELSE recommendations
    /\ next_idx' = next_idx + 1
    /\ pc' = IF next_idx = Len(vendor_scores) THEN "locations" ELSE "emit"
    /\ UNCHANGED <<vendors, first_inserted, customer_orders, customer_preferences,
                   orders_read, locations_read, cur, vendor_scores, min_score,
                   row_start>>

\* the location file is exhausted; generate_recommendations returns
EndLocations ==
    /\ pc = "locations"
    /\ pc' = "done"
    /\ UNCHANGED <<vendors, first_inserted, customer_orders, customer_preferences,
                   orders_read, locations_read, cur, vendor_scores, min_score,
                   next_idx, row_start, recommendations>>

ReadVendor ==
    /\ Len(vendors) < MaxVendors
    /\ \E row \in VendorRows \cup MalformedVendorRows : LoadVendorRow(row)

ReadOrder ==
    /\ Len(orders_read) < MaxOrderRows
    /\ \E row \in OrderRows \cup MalformedOrderRows : LoadOrderRow(row)

ReadLocation ==
    /\ locations_read < MaxLocationRows
    /\ \E row \in LocationRows \cup MalformedLocationRows : BeginRow(row)

Next ==
    \/ ReadVendor
    \/ EndVendors
    \/ ReadOrder
    \/ EndOrders
    \/ ReadLocation
    \/ EmitCandidate
    \/ EndLocations

Spec == Init /\ [][Next]_vars

(***************************************************************************)
(* load_data as a whole: the vendor loop and the order loop over a file    *)
(* of well-formed rows.                                                    *)
(***************************************************************************)
RECURSIVE LoadVendors(_)
LoadVendors(file) ==
    IF file = <<>> THEN <<>>
    ELSE VendorsAssign(LoadVendors(SubSeq(file, 1, Len(file) - 1)),
                       ParseVendor(file[Len(file)]))

RECURSIVE LoadOrders(_, _)
LoadOrders(vs, file) ==
    IF file = <<>> THEN [ orders |-> EmptyDict, preferences |-> EmptyDict ]
    ELSE LET before == LoadOrders(vs, SubSeq(file, 1, Len(file) - 1))
             row    == file[Len(file)]
         IN [ orders      |-> OrdersAdd(before.orders, row.customer_id, row.vendor_id),
              preferences |-> TrackCategory(vs, before.preferences,
                                            row.customer_id, row.vendor_id) ]

(***************************************************************************)
(* Inputs of the specification that starts when load_data has returned.    *)
(* A profile file holds vendor 1 with any combination of the optional      *)
(* fields, vendor 2 with the same fields, and a plain vendor 3.  A large   *)
(* file holds MaxCapVendors vendors, more than one group can take.         *)
(***************************************************************************)
ProfileRows(id) ==
    { VendorRow(id, 0, 0, cat, rating, charge, serving, open, discount) :
        cat \in {"A", "B"}, rating \in {Blank, <<5>>}, charge \in {Blank, <<20>>},
        serving \in {Blank, <<3>>}, open \in {Blank, <<0>>, <<1>>},
        discount \in {Blank, <<6>>} }

ProfileFiles ==
    { << row, [row EXCEPT !.id = 2],
         VendorRow(3, 0, 0, "A", Blank, Blank, Blank, Blank, Blank) >> :
        row \in ProfileRows(1) }

\* vendor i of a large file: ratings fall in steps with ties, vendor 7
\* charges for delivery and scores 10 at distance 0, vendors 9 and up serve
\* 1 km only.  Vendors 1 and 5 share a category of their own: vendor 1
\* scores 49 and 101 once ordered from, of which a tenth is the double
\* 10.100000000000001; vendor 5 is closed and scores 81 * 0.1 = 8.1 and,
\* with that order in its category, the double 10.1, which is below it
LargeRow(i) ==
    VendorRow(i, 0, 0, IF i \in {1, 5} THEN "B" ELSE "A",
              <<5 - (((i - 1) \div 3) % 4)>>,
              IF i = 7 THEN <<10>> ELSE Blank,
              IF i >= 9 THEN <<1>> ELSE Blank,
              IF i = 5 THEN <<0>> ELSE Blank,
              IF i = 1 THEN <<28>> ELSE IF i = 5 THEN <<98>>
              ELSE IF i = 7 THEN <<2>> ELSE Blank)

LargeFile(n) == [ i \in 1 .. n |-> LargeRow(i) ]

LargeFiles == { LargeFile(MaxCapVendors), LargeFile(MaxCapVendors - 1) }

LoadedVendorFiles == ProfileFiles \cup LargeFiles

LoadedOrderFiles ==
    { <<>>,
      << OrderRow("c1", 1) >>,
      << OrderRow("c1", 2) >>,
      << OrderRow("c1", 3) >>,
      << OrderRow("c1", 99) >>,
      << OrderRow("c1", 1), OrderRow("c1", 3) >>,
      << OrderRow("c1", 3), OrderRow("c1", 3) >> }

\* rows at 0, 2.2, 4.4, 6.5 and 8.7 km from (0, 0), one in each distance band
LoadedLocationRows ==
    { LocationRow("c1", 1, 0, 0), LocationRow("c1", 1, 0, 2), LocationRow("c1", 2, 4, 0),
      LocationRow("c1", 2, 3, 5), LocationRow("c1", 3, 5, 6), LocationRow("c2", 1, 0, 0) }

\* the state in which load_data returns
InitLoaded ==
    \E vfile \in LoadedVendorFiles, ofile \in LoadedOrderFiles :
      /\ pc = "locations"
      /\ vendors = LoadVendors(vfile)
      /\ first_inserted = FirstInserted(vfile)
      /\ customer_orders = LoadOrders(LoadVendors(vfile), ofile).orders
      /\ customer_preferences = LoadOrders(LoadVendors(vfile), ofile).preferences
      /\ orders_read = ofile
      /\ locations_read = 0
      /\ cur = NoRow
      /\ vendor_scores = <<>>
      /\ min_score = Float(0)
      /\ next_idx = 0
      /\ row_start = 0
      /\ recommendations = <<>>

ReadLoadedLocation ==
    /\ locations_read < MaxLoadedLocationRows
    /\ \E row \in LoadedLocationRows : BeginRow(row)

NextLoaded ==
    \/ ReadLoadedLocation
    \/ EmitCandidate
    \/ EndLocations

SpecLoaded == InitLoaded /\ [][NextLoaded]_vars

(***************************************************************************)
(* Vocabulary of the properties.                                           *)
(***************************************************************************)
\* a location row has been read; its loop iteration has finished
RowActive == cur # NoRow
RowDone == cur # NoRow /\ pc \in {"locations", "done"}
\* the row has just been scored: no candidate has been looked at yet
RowScored == cur # NoRow /\ next_idx = 1

\* the recommendations appended by the current row
Segment == SubSeq(recommendations, row_start + 1, Len(recommendations))

\* the recommendations of the whole output that carry the current row's key
GroupOutput ==
    SelectSeq(recommendations,
              LAMBDA r : r.customer_id = cur.customer_id
                         /\ r.location_number = cur.location_number)

\* the score the current row computed for a vendor: its entry in
\* vendor_scores, or 0 when it was not made a candidate
RowScore(vid) ==
    IF \E i \in DOMAIN vendor_scores : vendor_scores[i].vendor_id = vid
    THEN vendor_scores[CHOOSE i \in DOMAIN vendor_scores :
                         vendor_scores[i].vendor_id = vid].score
    ELSE Float(0)

\* the distance from the current row to a catalog vendor, in millimetres
RowDistance(v) == haversine_distance(cur.latitude, cur.longitude, v.lat, v.lon)
InRange(v) == RowDistance(v) <= v.serving_distance * KmUnit

Positive(score) == FloatLess(Float(0), score)

\* the candidates of the current row that clear max(10, top_score * 0.1),
\* the product and the comparison being those of Python floats
TopScore == IF vendors = <<>> THEN Float(0)
            ELSE LET ss == { RowScore(vendors[i].id) : i \in DOMAIN vendors }
                 IN CHOOSE m \in ss : \A x \in ss : FloatLeq(x, m)
Threshold == FloatMax(Float(10 * ScoreUnit), TimesTenth(TopScore))
Qualifying ==
    { vendors[i].id : i \in { j \in DOMAIN vendors :
         /\ Positive(RowScore(vendors[j].id))
         /\ FloatLeq(Threshold, RowScore(vendors[j].id)) } }

\* s lists distinct members of Qualifying with their scores, in descending
\* score order, and no member left out scores higher than a listed one
TopOfQualifying(s, n) ==
    /\ Len(s) = n
    /\ \A i \in DOMAIN s : s[i].vendor_id \in Qualifying
                           /\ s[i].score = RowScore(s[i].vendor_id)
                           /\ s[i].customer_id = cur.customer_id
                           /\ s[i].location_number = cur.location_number
    /\ \A i, j \in DOMAIN s : i < j => /\ s[i].vendor_id # s[j].vendor_id
                                       /\ FloatLeq(s[j].score, s[i].score)
    /\ \A q \in Qualifying :
         (\A i \in DOMAIN s : s[i].vendor_id # q) =>
            \A i \in DOMAIN s : FloatLeq(RowScore(q), s[i].score)

MinOf(a, b) == IF a <= b THEN a ELSE b

\* the recommendations with the current key that earlier rows appended
EarlierInGroup ==
    Cardinality({ i \in 1 .. row_start :
                    recommendations[i].customer_id = cur.customer_id
                    /\ recommendations[i].location_number = cur.location_number })

(***************************************************************************)
(* C1.  Hard serving-distance filter: while a location row is processed,   *)
(* no vendor farther from the row than its serving distance becomes a      *)
(* candidate or is appended to the output for the row, whatever its        *)
(* rating, discount, open flag or the customer's history.                  *)
(***************************************************************************)
C1_HardFilter ==
    RowActive =>
      \A i \in DOMAIN vendors :
        ~InRange(vendors[i]) =>
          /\ RowScore(vendors[i].id) = Float(0)
          /\ \A k \in DOMAIN Segment : Segment[k].vendor_id # vendors[i].id

\* a finished row that emitted something while a five-star vendor the
\* customer has ordered from lies outside its serving distance
C1_Witness ==
    /\ RowDone
    /\ Segment # <<>>
    /\ \E i \in DOMAIN vendors :
         /\ ~InRange(vendors[i])
         /\ vendors[i].rating = 5
         /\ vendors[i].id \in OrdersGet(customer_orders, cur.customer_id)

(***************************************************************************)
(* C2.  Selection exactness as claimed: once a row with at least one       *)
(* candidate is finished, the output rows of its (customer_id,             *)
(* location_number) group are the qualifying candidates, each once, the    *)
(* 10 highest, in descending score order.                                  *)
(***************************************************************************)
C2_Original ==
    (RowDone /\ vendor_scores # <<>>) =>
      TopOfQualifying(GroupOutput, MinOf(Cardinality(Qualifying), 10))

(***************************************************************************)
(* C2 amended.  The recommendations a finished row appended are the        *)
(* qualifying candidates in descending score order, truncated to the       *)
(* 10 - k highest, k being the recommendations earlier rows left in the    *)
(* output for the same (customer_id, location_number).                     *)
(***************************************************************************)
C2_SelectionExact ==
    RowDone =>
      TopOfQualifying(Segment, MinOf(Cardinality(Qualifying), 10 - EarlierInGroup))

\* a finished row whose group already held rows and that was cut short,
\* and that left out a candidate scoring 10 or more for being under a
\* tenth of the top score
C2_Witness ==
    /\ RowDone
    /\ EarlierInGroup > 0
    /\ Segment # <<>>
    /\ Len(Segment) < Cardinality(Qualifying)
    /\ \E i \in DOMAIN vendor_scores :
         /\ FloatLeq(Float(10 * ScoreUnit), vendor_scores[i].score)
         /\ vendor_scores[i].vendor_id \notin Qualifying

(***************************************************************************)
(* C3.  Per-group cap: in every state, no (customer_id, location_number)   *)
(* carries more than 10 recommendations in the output.                     *)
(***************************************************************************)
C3_GroupCap ==
    \A r \in { recommendations[i] : i \in DOMAIN recommendations } :
      Cardinality({ i \in DOMAIN recommendations :
                      /\ recommendations[i].customer_id = r.customer_id
                      /\ recommendations[i].location_number = r.location_number }) <= 10

\* the group is full and a candidate that clears min_score was passed over
C3_Witness ==
    /\ RowActive
    /\ Len(GroupOutput) = 10
    /\ \E j \in DOMAIN vendor_scores :
         /\ j < next_idx
         /\ FloatLeq(min_score, vendor_scores[j].score)
         /\ \A k \in DOMAIN Segment : Segment[k].vendor_id # vendor_scores[j].vendor_id

(***************************************************************************)
(* C4.  Non-empty output as claimed: once a row is finished, its group     *)
(* has a recommendation whenever some catalog vendor scores above 0 for it.*)
(***************************************************************************)
C4_Original ==
    (RowDone /\ \E i \in DOMAIN vendors : Positive(RowScore(vendors[i].id))) =>
      GroupOutput # <<>>

(***************************************************************************)
(* C4 amended.  Once a row is finished, its group has a recommendation     *)
(* whenever some catalog vendor scores at least 10 for it.                 *)
(***************************************************************************)
C4_NonEmpty ==
    (RowDone /\ \E i \in DOMAIN vendors :
                   FloatLeq(Float(10 * ScoreUnit), RowScore(vendors[i].id))) =>
      GroupOutput # <<>>

\* a finished row whose best vendor scores exactly 10 and is emitted
C4_Witness ==
    /\ RowDone
    /\ TopScore = Float(10 * ScoreUnit)
    /\ Segment # <<>>

(***************************************************************************)
(* The score formula in closed form, in thousandths of a point.            *)
(***************************************************************************)
Band(d) == IF d <= 1000000 THEN 20
           ELSE IF d <= 3000000 THEN 15
           ELSE IF d <= 5000000 THEN 10
           ELSE IF d <= 8000000 THEN 5
           ELSE 1

\* band(dist) + 3*rating - 2*delivery_charge + 0.5*discount
BaseOf(v) ==
    1000 * Band(RowDistance(v)) + 3000 * v.rating - 2000 * v.delivery_charge
      + 500 * v.discount

HasOrdered(cid, vid) == cid \in DOMAIN customer_orders /\ vid \in customer_orders[cid]

CategoryCount(cid, cat) ==
    IF cid \in DOMAIN customer_preferences /\ cat \in DOMAIN customer_preferences[cid]
    THEN customer_preferences[cid][cat]
    ELSE 0

\* m * base + 2 * category_count, before the bonus and the clamp
Unclamped(v) ==
    (IF v.is_open = 0 THEN BaseOf(v) \div 10 ELSE BaseOf(v))
      + 2000 * CategoryCount(cur.customer_id, v.category)

Formula(v) ==
    LET t == Unclamped(v)
               + (IF HasOrdered(cur.customer_id, v.id) THEN 50000 ELSE 0)
    IN IF t > 0 THEN t ELSE 0

\* the double is within 2^-40 of its decimal value: the roundings of the
\* product and the sums, each under 2^-43 for the scores below 2048
WithinRounding(score) ==
    LET tolerance == 125 * Pow2(20)
    IN 0 - tolerance < score.excess /\ score.excess < tolerance

(***************************************************************************)
(* C5.  Score formula: the score a row computes for a vendor within its    *)
(* serving distance is max(0, m*(band + 3*rating - 2*charge                *)
(* + 0.5*discount) + 50*[has_ordered] + 2*category_count) with m = 0.1     *)
(* for a closed vendor and 1 otherwise: the float the code returns is      *)
(* within 2^-40 of that value, and is that value exactly for an open       *)
(* vendor; an open vendor at distance 0 with rating 5, no charge, no       *)
(* discount and no history scores 35.                                      *)
(***************************************************************************)
C5_ScoreFormula ==
    RowScored =>
      \A i \in DOMAIN vendors :
        LET v == vendors[i] IN
        InRange(v) =>
          /\ RowScore(v.id).milli = Formula(v)
          /\ WithinRounding(RowScore(v.id))
          /\ v.is_open # 0 => RowScore(v.id).excess = 0
          /\ ( /\ v.is_open # 0 /\ RowDistance(v) = 0 /\ v.rating = 5
               /\ v.delivery_charge = 0 /\ v.discount = 0
               /\ cur.customer_id \notin DOMAIN customer_orders )
             => RowScore(v.id) = Float(35 * ScoreUnit)

\* a closed vendor the customer has ordered from, in a category the
\* customer has a count for, scored by the row with a float that is not
\* its decimal value
C5_Witness ==
    /\ RowActive
    /\ \E i \in DOMAIN vendors :
         /\ InRange(vendors[i])
         /\ vendors[i].is_open = 0
         /\ BaseOf(vendors[i]) > 0
         /\ HasOrdered(cur.customer_id, vendors[i].id)
         /\ CategoryCount(cur.customer_id, vendors[i].category) > 0
         /\ FloatLess(Float(50 * ScoreUnit), RowScore(vendors[i].id))
         /\ RowScore(vendors[i].id).excess # 0

(***************************************************************************)
(* C6.  Prior-purchase dominance as claimed: of two catalog vendors that   *)
(* differ in id only, the one the customer has ordered from scores at      *)
(* least 50 points more than the other.                                    *)
(***************************************************************************)
Twins(v, w) == v.id # w.id /\ [v EXCEPT !.id = w.id] = w

OrderedExactlyFirst(v, w) ==
    /\ Twins(v, w)
    /\ HasOrdered(cur.customer_id, v.id)
    /\ ~HasOrdered(cur.customer_id, w.id)

\* score - other >= 50 on the exact values of the two floats
FiftyMoreExactly(score, other) ==
    \/ score.milli - other.milli > 50 * ScoreUnit
    \/ /\ score.milli - other.milli = 50 * ScoreUnit
       /\ score.excess >= other.excess

C6_Original ==
    RowScored =>
      \A i, j \in DOMAIN vendors :
        OrderedExactlyFirst(vendors[i], vendors[j]) =>
          FiftyMoreExactly(RowScore(vendors[i].id), RowScore(vendors[j].id))

\* score - other >= 50 - 2^-40 on the exact values of the two floats: the
\* decimal values are 50 apart or more, and the roundings of the sums
\* (score is (b + 50) + 2c, other is b + 2c) take less than 2^-40 from it
FiftyMoreWithinRounding(score, other) ==
    LET tolerance == 125 * Pow2(20)
    IN /\ score.milli - other.milli >= 50 * ScoreUnit
       /\ other.excess - score.excess < tolerance

(***************************************************************************)
(* C6 amended.  Of two catalog vendors that differ in id only, the one     *)
(* the customer has ordered from never scores lower, and scores 50 points  *)
(* more up to the rounding of the floats, score - other >= 50 - 2^-40,     *)
(* when the vendors are within their serving distance and the other's      *)
(* score before the final clamp is not negative.                           *)
(***************************************************************************)
C6_PriorPurchase ==
    RowScored =>
      \A i, j \in DOMAIN vendors :
        OrderedExactlyFirst(vendors[i], vendors[j]) =>
          /\ FloatLeq(RowScore(vendors[j].id), RowScore(vendors[i].id))
          /\ (InRange(vendors[j]) /\ Unclamped(vendors[j]) >= 0) =>
               FiftyMoreWithinRounding(RowScore(vendors[i].id),
                                       RowScore(vendors[j].id))

\* closed twins in range, one ordered from, the other scoring above 0:
\* the two floats are less than 50 apart, by less than 2^-40
C6_Witness ==
    /\ RowActive
    /\ \E i, j \in DOMAIN vendors :
         /\ OrderedExactlyFirst(vendors[i], vendors[j])
         /\ InRange(vendors[j])
         /\ vendors[j].is_open = 0
         /\ Positive(RowScore(vendors[j].id))
         /\ FiftyMoreWithinRounding(RowScore(vendors[i].id),
                                    RowScore(vendors[j].id))
         /\ ~FiftyMoreExactly(RowScore(vendors[i].id), RowScore(vendors[j].id))

(***************************************************************************)
(* C7.  Closed-vendor suppression as claimed: the score of a vendor row    *)
(* with is_open 0 is strictly below the score of the same row with         *)
(* is_open 1, unless band + 3*rating - 2*charge + 0.5*discount <= 0.       *)
(***************************************************************************)
\* the vendor's row with every field filled in and the given is_open
RowOf(v, open) ==
    VendorRow(v.id, v.lat, v.lon, v.category, <<v.rating>>, <<v.delivery_charge>>,
              <<v.serving_distance>>, <<open>>, <<v.discount>>)

\* the score of the current row's customer-location for v loaded with that is_open
ScoreWithOpen(v, open) ==
    calculate_vendor_score(VendorsAssign(vendors, ParseVendor(RowOf(v, open))),
                customer_orders, customer_preferences,
                cur.customer_id, cur.latitude, cur.longitude, v.id)

C7_Original ==
    RowScored =>
      \A i \in DOMAIN vendors :
        BaseOf(vendors[i]) > 0 =>
          FloatLess(ScoreWithOpen(vendors[i], 0), ScoreWithOpen(vendors[i], 1))

(***************************************************************************)
(* C7 amended.  For a vendor within its serving distance of the            *)
(* customer-location, the score with is_open 0 is strictly below the score *)
(* with is_open 1, unless band + 3*rating - 2*charge + 0.5*discount <= 0.  *)
(***************************************************************************)
C7_ClosedSuppression ==
    RowScored =>
      \A i \in DOMAIN vendors :
        (InRange(vendors[i]) /\ BaseOf(vendors[i]) > 0) =>
          /\ FloatLess(ScoreWithOpen(vendors[i], 0), ScoreWithOpen(vendors[i], 1))
          /\ RowScore(vendors[i].id) = ScoreWithOpen(vendors[i], vendors[i].is_open)

\* a closed vendor in range with a positive base, scored by the row below
\* what it would score open
C7_Witness ==
    /\ RowActive
    /\ \E i \in DOMAIN vendors :
         /\ InRange(vendors[i])
         /\ BaseOf(vendors[i]) > 0
         /\ vendors[i].is_open = 0
         /\ Positive(RowScore(vendors[i].id))
         /\ FloatLess(RowScore(vendors[i].id), ScoreWithOpen(vendors[i], 1))

(***************************************************************************)
(* C8.  Rating monotonicity: raising one vendor's rating, all else equal,  *)
(* never lowers the score the row computes for it and never moves it to a  *)
(* later position among the row's sorted candidates.                       *)
(***************************************************************************)
RatingSteps == {1, 3}

Raised(v, step) == VendorsAssign(vendors, [v EXCEPT !.rating = v.rating + step])

ScoreRaised(v, step) ==
    calculate_vendor_score(Raised(v, step), customer_orders, customer_preferences,
                cur.customer_id, cur.latitude, cur.longitude, v.id)

SortedRaised(v, step) ==
    SortDescending(ScoreAll(Raised(v, step), customer_orders, customer_preferences,
                            cur.customer_id, cur.latitude, cur.longitude))

\* the position of a vendor in a candidate list, past the end when absent
PositionIn(sorted, vid) ==
    IF \E k \in DOMAIN sorted : sorted[k].vendor_id = vid
    THEN CHOOSE k \in DOMAIN sorted : sorted[k].vendor_id = vid
    ELSE Len(sorted) + 1

C8_RatingMonotone ==
    RowScored =>
      \A i \in DOMAIN vendors : \A step \in RatingSteps :
        LET v == vendors[i] IN
        /\ FloatLeq(RowScore(v.id), ScoreRaised(v, step))
        /\ Positive(RowScore(v.id)) =>
             PositionIn(SortedRaised(v, step), v.id) <= PositionIn(vendor_scores, v.id)

\* a candidate that is not first and that a higher rating moves forward
C8_Witness ==
    /\ RowActive
    /\ \E i \in DOMAIN vendors :
         /\ Positive(RowScore(vendors[i].id))
         /\ FloatLess(RowScore(vendors[i].id), ScoreRaised(vendors[i], 3))
         /\ PositionIn(SortedRaised(vendors[i], 3), vendors[i].id)
              < PositionIn(vendor_scores, vendors[i].id)

(***************************************************************************)
(* C9.  Stable tie-break: the candidates of a row are sorted by            *)
(* descending score, candidates of equal score stand in the order their    *)
(* vendor ids were first inserted into the catalog, and the row's output   *)
(* rows keep that order.                                                   *)
(***************************************************************************)
FirstPosition(vid) == CHOOSE k \in DOMAIN first_inserted : first_inserted[k] = vid

TieOrdered(s) ==
    \A i, j \in DOMAIN s :
      i < j => \/ FloatLess(s[j].score, s[i].score)
               \/ /\ s[i].score = s[j].score
                  /\ FirstPosition(s[i].vendor_id) < FirstPosition(s[j].vendor_id)

C9_StableTieBreak ==
    RowActive => TieOrdered(vendor_scores) /\ TieOrdered(Segment)

\* two output rows of one row with equal scores, the larger vendor id first
C9_Witness ==
    /\ RowDone
    /\ \E i, j \in DOMAIN Segment :
         /\ i < j
         /\ Segment[i].score = Segment[j].score
         /\ Segment[i].vendor_id > Segment[j].vendor_id

(***************************************************************************)
(* C10.  Preference index: has_ordered(c, v) holds iff the log read so far *)
(* has an order (c, v), whether or not v is in the catalog, and            *)
(* category_count(c, cat) is the number of orders of c read so far whose   *)
(* vendor is in the catalog with category cat.                             *)
(***************************************************************************)
OrdersInLog(cid, vid) ==
    { i \in DOMAIN orders_read :
        orders_read[i].customer_id = cid /\ orders_read[i].vendor_id = vid }

OrdersInCategory(cid, cat) ==
    { i \in DOMAIN orders_read :
        /\ orders_read[i].customer_id = cid
        /\ \E k \in DOMAIN vendors :
             vendors[k].id = orders_read[i].vendor_id /\ vendors[k].category = cat }

C10_PreferenceIndex ==
    \A cid \in Customers :
      /\ \A vid \in VendorIds : HasOrdered(cid, vid) <=> OrdersInLog(cid, vid) # {}
      /\ \A cat \in {"A", "B"} :
           CategoryCount(cid, cat) = Cardinality(OrdersInCategory(cid, cat))

\* the log holds an order for a vendor the catalog lacks and one for a
\* vendor it has, both by one customer
C10_Witness ==
    /\ pc # "load_vendors"
    /\ \E cid \in Customers : \E unknown, known \in VendorIds :
         /\ unknown \notin VendorIdsOf(vendors)
         /\ known \in VendorIdsOf(vendors)
         /\ OrdersInLog(cid, unknown) # {}
         /\ OrdersInLog(cid, known) # {}
         /\ HasOrdered(cid, unknown)
         /\ CategoryCount(cid, "A") + CategoryCount(cid, "B") = 1

(***************************************************************************)
(* C11.  Per-row leniency: a malformed vendor or customer-location row is  *)
(* dropped at the row level and never aborts the load or the run, so the   *)
(* rows after it are still read: the run is never left by an exception.    *)
(***************************************************************************)
C11_NeverAborts == pc # "aborted"

====
